---- MODULE Spec2Model ----
(***************************************************************************)
(* The SQL front-end and query executor (class SqlParser): the session     *)
(* facade that drives the parser over an input stream, the statement       *)
(* callbacks the grammar invokes, the SELECT planner that compiles each    *)
(* disjunct of a DNF constraint into an index-driven call or a full scan,  *)
(* and the result merger.  The storage engine, the scanner and the grammar *)
(* are external: the engine's answers are inputs of the actions.           *)
(***************************************************************************)
EXTENDS Integers, Sequences, FiniteSets, TLC

(***************************************************************************)
(* Bounds of the model.                                                    *)
(***************************************************************************)
\* statements a stream holds before its end (or before its syntax error)
MaxStmts == 2
\* conditions in one WHERE clause, over all its disjuncts (planner runs)
MaxConds == 2
\* disjuncts in one WHERE clause (merge runs)
MaxDisj == 2
\* records in one engine answer
MaxRecs == 2
\* records in one argument of a direct merge_records call
MaxVec == 3

(***************************************************************************)
(* Value domains.                                                          *)
(***************************************************************************)
\* the names statements use; no stream creates "nonesuch"
TableNames == {"t", "nonesuch"}
CreatedTables == {"t"}
TableOrder == <<"nonesuch", "t">>
Cols == {"a", "b"}
\* "z" is never a column of a table
ColNames == Cols \cup {"z"}
\* Comp: EQUAL, L, LE, G, GE
Ops == {"=", "<", "<=", ">", ">="}
Values == {"v"}
Records == {"r1", "r2"}
MergeRecords == {"r1", "r2", "r3"}
StageNames == {"search", "filter"}
Durations == {1, 2}

SeqsUpTo(S, n) == UNION {[1..k -> S] : k \in 0..n}

Range(s) == {s[i] : i \in 1..Len(s)}

\* condition_t {column_name, c, value}
Conditions == [column_name : Cols, c : Ops, value : Values]
EqConditions == {cd \in Conditions : cd.c = "="}

\* a default-constructed condition_t: its column_name is empty
NoCondition == [column_name |-> "", c |-> "", value |-> ""]

\* Attribute {name, value}; KEY_LIMITS::MIN and KEY_LIMITS::MAX
NoAttribute == [name |-> "", value |-> ""]
KEY_MIN == [name |-> "KEY_MIN", value |-> ""]
KEY_MAX == [name |-> "KEY_MAX", value |-> ""]

\* query_time_t: a map from stage name to duration
TimeMaps == UNION {[K -> Durations] : K \in SUBSET StageNames}
NoTimes == [k \in {} |-> 0]

\* QueryResponse {records, query_times}
EmptyQuery == [records |-> <<>>, query_times |-> NoTimes]
QueryResponses(recs, n, times) == [records : SeqsUpTo(recs, n), query_times : times]

\* ParserResponse as default-constructed: empty collections, code 200
EmptyResponse ==
  [records |-> <<>>, query_times |-> NoTimes, column_names |-> <<>>,
   table_names |-> <<>>, error |-> "", code |-> 200]

failed(resp) == resp.code # 200

(***************************************************************************)
(* State.                                                                  *)
(***************************************************************************)
VARIABLES
  tables,             \* engine: the names is_table answers true for
  attributes,         \* engine: each table's column names, in schema order
  indexes,            \* engine: each table's indexed columns
  m_parser_response,  \* the session's ParserResponse
  m_sc,               \* the scanner handle: "null" or "scanner"
  m_parser,           \* the parser handle: "null" or "parser"
  pc,                 \* "idle", "parsing" (inside yy::parser::parse), "exited"
  call_stream,        \* the flags of the stream of the latest parse call
  remaining,          \* statements the parser has still to read
  checked,            \* the table check_table_name accepted for the statement being reduced
  outcome,            \* how the latest call of the facade ended: "none", "returned", "accepted", "cleared", or the exception's text
  pre_response,       \* m_parser_response as the latest parse call found it
  emitted,            \* whether query_to_output ran during the latest parse call
  stmt,               \* the arguments of the latest statement callback
  calls,              \* the engine calls the latest statement callback issued, in order
  vec1, vec2,         \* the arguments of a direct merge_records call
  merged              \* <<>> before that call returns, then <<its result>>

vars ==
  <<tables, attributes, indexes, m_parser_response, m_sc, m_parser, pc,
    call_stream, remaining, checked, outcome, pre_response, emitted, stmt,
    calls, vec1, vec2, merged>>

engine_vars == <<tables, attributes, indexes>>
merge_vars == <<vec1, vec2, merged>>

(***************************************************************************)
(* The engine adapter, as far as the executor reads it.                    *)
(***************************************************************************)
is_table(t) == t \in tables

get_table_attributes(t) == attributes[t]

get_indexes_names(t) == indexes[t]

get_table_names == SelectSeq(TableOrder, LAMBDA t : t \in tables)

\* the requested columns in schema order; names the table lacks keep their place at the end
sort_attributes(t, cols) ==
  SelectSeq(attributes[t], LAMBDA c : c \in Range(cols))
    \o SelectSeq(cols, LAMBDA c : c \notin Range(attributes[t]))

(***************************************************************************)
(* The engine call log.                                                    *)
(***************************************************************************)
NoCall(op, t) ==
  [op |-> op, table |-> t, disj |-> 0, key |-> NoAttribute, lo |-> NoAttribute,
   hi |-> NoAttribute, pred |-> <<>>, cols |-> <<>>, cond |-> NoCondition,
   ret |-> EmptyQuery, args |-> <<>>]

\* a call the planner issues: get_comparator, load, search, range_search
Call(op, t, disj, key, lo, hi, pred, cols, cond, ret) ==
  [NoCall(op, t) EXCEPT !.disj = disj, !.key = key, !.lo = lo, !.hi = hi,
                        !.pred = pred, !.cols = cols, !.cond = cond, !.ret = ret]

\* a call that changes the engine: its key, its column names, its other arguments
EngineCall(op, t, key, cols, args) ==
  [NoCall(op, t) EXCEPT !.key = key, !.cols = cols, !.args = args]

NoStmt == [kind |-> "none", table |-> "", cols |-> <<>>, cons |-> <<>>]
Stmt(kind, t, cols, cons) == [kind |-> kind, table |-> t, cols |-> cols, cons |-> cons]

DataOps == {"load", "search", "range_search"}
MutatingOps == {"create_table", "create_index", "add", "csv_insert", "remove", "drop_table"}

(***************************************************************************)
(* The result merger.                                                      *)
(***************************************************************************)
RECURSIVE MergeFrom(_, _, _, _)
\* the loop over vec2: an element not in unique_elements is pushed and inserted
MergeFrom(response, unique_elements, vec2_, i) ==
  IF i > Len(vec2_) THEN response
  ELSE IF vec2_[i] \notin unique_elements
       THEN MergeFrom(Append(response, vec2_[i]), unique_elements \cup {vec2_[i]}, vec2_, i + 1)
       ELSE MergeFrom(response, unique_elements, vec2_, i + 1)

\* a merge that forgets the set: every element of vec2 is appended
merge_records_concat(vec1_, vec2_) == vec1_ \o vec2_

\* a merge that never inserts what it pushes: vec2's own repeats are kept
merge_records_noinsert(vec1_, vec2_) ==
  vec1_ \o SelectSeq(vec2_, LAMBDA e : e \notin Range(vec1_))

merge_records(vec1_, vec2_) ==
  MergeFrom(vec1_, Range(vec1_), vec2_, 1)

\* a merge in which the inserted entry replaces the one already there
merge_times_overwrite(times_1, times_2) ==
  [k \in DOMAIN times_1 \cup DOMAIN times_2 |->
     IF k \in DOMAIN times_2 THEN times_2[k] ELSE times_1[k]]

\* std map insert of a range: a key already in times_1 keeps its entry
merge_times(times_1, times_2) ==
  [k \in DOMAIN times_1 \cup DOMAIN times_2 |->
     IF k \in DOMAIN times_1 THEN times_1[k] ELSE times_2[k]]

(***************************************************************************)
(* The predicate compiler: the loop over one disjunct's conditions.        *)
(***************************************************************************)
RECURSIVE CompileFrom(_, _, _, _, _)
CompileFrom(or_constraint, idxs, i, constraint_key, lambdas) ==
  IF i > Len(or_constraint)
  THEN [constraint_key |-> constraint_key, lambdas |-> lambdas]
  ELSE LET column_constraint == or_constraint[i] IN
       IF column_constraint.column_name \notin idxs
       THEN CompileFrom(or_constraint, idxs, i + 1, constraint_key,
                        Append(lambdas, column_constraint))
       ELSE IF constraint_key.column_name = ""
            THEN CompileFrom(or_constraint, idxs, i + 1, column_constraint, lambdas)
            ELSE CompileFrom(or_constraint, idxs, i + 1, constraint_key, lambdas)

\* constraint_key and the comparators joined into the residual predicate
Compile(t, or_constraint) ==
  CompileFrom(or_constraint, get_indexes_names(t), 1, NoCondition, <<>>)

\* the get_comparator calls of one disjunct, one per comparator pushed
ComparatorCalls(t, disj, lambdas) ==
  [j \in 1..Len(lambdas) |->
     Call("get_comparator", t, disj, NoAttribute, NoAttribute, NoAttribute,
          <<>>, <<>>, lambdas[j], EmptyQuery)]

\* a driver call with the range endpoints exchanged
IndexCallSwapped(t, disj, constraint_key, joined_lambdas, sorted_column_names, ret) ==
  LET k == [name |-> constraint_key.column_name, value |-> constraint_key.value] IN
  IF constraint_key.c = "="
  THEN Call("search", t, disj, k, NoAttribute, NoAttribute,
            joined_lambdas, sorted_column_names, NoCondition, ret)
  ELSE Call("range_search", t, disj, NoAttribute,
            IF constraint_key.c \in {"<", "<="} THEN k ELSE KEY_MIN,
            IF constraint_key.c \in {">", ">="} THEN k ELSE KEY_MAX,
            joined_lambdas, sorted_column_names, NoCondition, ret)

\* the engine call the driver's operator selects
IndexCall(t, disj, constraint_key, joined_lambdas, sorted_column_names, ret) ==
  LET k == [name |-> constraint_key.column_name, value |-> constraint_key.value] IN
  IF constraint_key.c = "="
  THEN Call("search", t, disj, k, NoAttribute, NoAttribute,
            joined_lambdas, sorted_column_names, NoCondition, ret)
  ELSE Call("range_search", t, disj, NoAttribute,
            IF constraint_key.c \in {">", ">="} THEN k ELSE KEY_MIN,
            IF constraint_key.c \in {"<", "<="} THEN k ELSE KEY_MAX,
            joined_lambdas, sorted_column_names, NoCondition, ret)

\* a full scan whose answer is merged into what the earlier disjuncts gave
ScanResultMerged(query_response, loaded) ==
  [records |-> merge_records(query_response.records, loaded.records),
   query_times |-> merge_times(query_response.query_times, loaded.query_times)]

\* query_response = m_engine.load(...): the scan's answer replaces the running response
ScanResult(query_response, loaded) == loaded

\* the fold of one driver answer into the running response
MergeResponse(query_response, or_response) ==
  [query_times |-> merge_times(query_response.query_times, or_response.query_times),
   records |-> merge_records(query_response.records, or_response.records)]

RECURSIVE DisjunctLoop(_, _, _, _, _, _)
\* the loop over the OR constraints; R[i] is the engine's answer to disjunct i's data call
DisjunctLoop(t, constraints, sorted_column_names, R, i, acc) ==
  IF i > Len(constraints) THEN acc
  ELSE LET compiled == Compile(t, constraints[i])
           log == acc.log \o ComparatorCalls(t, i, compiled.lambdas)
       IN IF compiled.constraint_key.column_name = ""
          THEN [query_response |-> ScanResult(acc.query_response, R[i]),
                log |-> Append(log,
                   Call("load", t, i, NoAttribute, NoAttribute, NoAttribute,
                        compiled.lambdas, sorted_column_names, NoCondition, R[i]))]
          ELSE DisjunctLoop(t, constraints, sorted_column_names, R, i + 1,
                 [query_response |-> MergeResponse(acc.query_response, R[i]),
                  log |-> Append(log,
                     IndexCall(t, i, compiled.constraint_key, compiled.lambdas,
                               sorted_column_names, R[i]))])

\* what select computes after its column check: the response to emit and the calls issued
RunSelect(t, sorted_column_names, constraints, R) ==
  IF constraints = <<>>
  THEN [query_response |-> R[1],
        log |-> <<Call("load", t, 0, NoAttribute, NoAttribute, NoAttribute,
                       <<>>, sorted_column_names, NoCondition, R[1])>>]
  ELSE DisjunctLoop(t, constraints, sorted_column_names, R, 1,
                    [query_response |-> EmptyQuery, log |-> <<>>])

query_to_output(resp, query_response, sorted_column_names) ==
  [resp EXCEPT !.records = query_response.records,
               !.query_times = query_response.query_times,
               !.table_names = get_table_names,
               !.column_names = sorted_column_names]

(***************************************************************************)
(* The session facade: parse and the end of yy::parser::parse.             *)
(***************************************************************************)
Streams == [failbit : BOOLEAN, badbit : BOOLEAN, eofbit : BOOLEAN]
good(stream) == ~stream.failbit /\ ~stream.badbit /\ ~stream.eofbit
eof(stream) == stream.eofbit
GoodStream == [failbit |-> FALSE, badbit |-> FALSE, eofbit |-> FALSE]

\* an exception leaves the parse call: the handles stay, the response is not touched
Throw(what) ==
  /\ pc' = "idle"
  /\ outcome' = what
  /\ checked' = "none"

\* a fresh scanner and parser are bound to the stream and yy::parser::parse starts;
\* a stream that is not good yields no statement
parse_helper(stream, n) ==
  /\ m_sc' = "scanner"
  /\ m_parser' = "parser"
  /\ pc' = "parsing"
  /\ remaining' = IF good(stream) THEN n ELSE 0
  /\ outcome' = "none"

\* what every entry into a parse call records
EnterCall(stream) ==
  /\ call_stream' = stream
  /\ pre_response' = m_parser_response
  /\ emitted' = FALSE
  /\ stmt' = NoStmt
  /\ calls' = <<>>
  /\ checked' = "none"

\* parse(std::istream &): a stream holding n statements
parse(stream, n) ==
  /\ pc = "idle"
  /\ EnterCall(stream)
  /\ IF ~good(stream) /\ eof(stream)
     THEN /\ outcome' = "returned"
          /\ UNCHANGED <<m_sc, m_parser, pc, remaining>>
     ELSE parse_helper(stream, n)
  /\ UNCHANGED <<engine_vars, m_parser_response, merge_vars>>

\* parse(const char *): the file opens (a good stream of n statements) or the process exits
parse_file(opened, n) ==
  /\ pc = "idle"
  /\ EnterCall(GoodStream)
  /\ IF ~opened
     THEN /\ pc' = "exited"
          /\ UNCHANGED <<m_sc, m_parser, remaining, outcome>>
     ELSE parse_helper(GoodStream, n)
  /\ UNCHANGED <<engine_vars, m_parser_response, merge_vars>>

\* a failed parse that also wipes the response
ParsingFailedWiping ==
  /\ pc = "parsing" /\ checked = "none" /\ remaining = 0
  /\ Throw("Parsing failed")
  /\ m_parser_response' = EmptyResponse
  /\ UNCHANGED <<engine_vars, m_sc, m_parser, call_stream, remaining,
                 pre_response, emitted, stmt, calls, merge_vars>>

\* m_parser->parse() != ACCEPT: the grammar or the scanner rejects what follows
ParsingFailed ==
  /\ pc = "parsing" /\ checked = "none" /\ remaining = 0
  /\ Throw("Parsing failed")
  /\ UNCHANGED <<engine_vars, m_parser_response, m_sc, m_parser, call_stream,
                 remaining, pre_response, emitted, stmt, calls, merge_vars>>

\* m_parser->parse() == ACCEPT: parse returns m_parser_response
ParsingAccepted ==
  /\ pc = "parsing" /\ checked = "none" /\ remaining = 0
  /\ pc' = "idle"
  /\ outcome' = "accepted"
  /\ UNCHANGED <<engine_vars, m_parser_response, m_sc, m_parser, call_stream,
                 remaining, checked, pre_response, emitted, stmt, calls, merge_vars>>

\* SqlParser::clear between parse calls
clear ==
  /\ pc = "idle"
  /\ m_parser_response' =
       [m_parser_response EXCEPT !.records = <<>>, !.query_times = NoTimes,
                                 !.column_names = <<>>, !.table_names = <<>>]
  /\ outcome' = "cleared"
  /\ UNCHANGED <<engine_vars, m_sc, m_parser, pc, call_stream, remaining, checked,
                 pre_response, emitted, stmt, calls, merge_vars>>

(***************************************************************************)
(* The statement callbacks.  The grammar calls check_table_name for the    *)
(* table of a statement before the statement's own callback; create_table  *)
(* and create_index are called without it.                                 *)
(***************************************************************************)
\* the callback of the statement being reduced returns: the parser goes on
Return ==
  /\ checked' = "none"
  /\ remaining' = remaining - 1
  /\ UNCHANGED <<pc, outcome>>

check_table_name(tablename) ==
  /\ pc = "parsing" /\ remaining > 0 /\ checked = "none"
  /\ stmt' = Stmt("check_table_name", tablename, <<>>, <<>>)
  /\ calls' = <<>>
  /\ IF ~is_table(tablename)
     THEN Throw("Table doesn't exists")
     ELSE /\ checked' = tablename
          /\ UNCHANGED <<pc, outcome>>
  /\ UNCHANGED <<engine_vars, m_parser_response, m_sc, m_parser, call_stream,
                 remaining, pre_response, emitted, merge_vars>>

ColumnDefs ==
  {<<[name |-> "a", type |-> "INT", is_pk |-> TRUE],
     [name |-> "b", type |-> "VARCHAR", is_pk |-> FALSE]>>,
   <<[name |-> "b", type |-> "VARCHAR", is_pk |-> FALSE],
     [name |-> "a", type |-> "INT", is_pk |-> TRUE]>>}

RECURSIVE PrimaryKey(_, _, _)
\* the loop over the columns: the last column marked is_pk names the key
PrimaryKey(columns, i, primary_key) ==
  IF i > Len(columns) THEN primary_key
  ELSE PrimaryKey(columns, i + 1, IF columns[i].is_pk THEN columns[i].name ELSE primary_key)

create_table(tablename, columns) ==
  /\ pc = "parsing" /\ remaining > 0 /\ checked = "none"
  /\ ~is_table(tablename)
  /\ LET col_types == [i \in 1..Len(columns) |-> columns[i].type]
         col_names == [i \in 1..Len(columns) |-> columns[i].name]
         primary_key == PrimaryKey(columns, 1, "")
     IN /\ tables' = tables \cup {tablename}
        /\ attributes' = [attributes EXCEPT ![tablename] = col_names]
        /\ indexes' = [indexes EXCEPT ![tablename] = {}]
        /\ calls' = <<EngineCall("create_table", tablename,
                                 [name |-> primary_key, value |-> ""], col_names, col_types)>>
  /\ stmt' = Stmt("create_table", tablename, <<>>, <<>>)
  /\ Return
  /\ UNCHANGED <<m_parser_response, m_sc, m_parser, call_stream, pre_response,
                 emitted, merge_vars>>

IndexKinds == {"bplus"}

create_index(tablename, column_name, index_name) ==
  /\ pc = "parsing" /\ remaining > 0 /\ checked = "none"
  /\ stmt' = Stmt("create_index", tablename, <<column_name>>, <<>>)
  /\ IF ~is_table(tablename)
     THEN /\ Throw("Table doesn't exists")
          /\ calls' = <<>>
          /\ UNCHANGED <<engine_vars, remaining>>
     ELSE IF column_name \notin Range(get_table_attributes(tablename))
     THEN /\ Throw("Column doesn't exists")
          /\ calls' = <<>>
          /\ UNCHANGED <<engine_vars, remaining>>
     ELSE /\ indexes' = [indexes EXCEPT ![tablename] = @ \cup {column_name}]
          /\ calls' = <<EngineCall("create_index", tablename,
                                   [name |-> column_name, value |-> ""], <<>>, <<index_name>>)>>
          /\ Return
          /\ UNCHANGED <<tables, attributes>>
  /\ UNCHANGED <<m_parser_response, m_sc, m_parser, call_stream, pre_response,
                 emitted, merge_vars>>

Reverse(s) == [i \in 1..Len(s) |-> s[Len(s) + 1 - i]]

\* a callback that only forwards one call to the engine
Forward(kind, tablename, call) ==
  /\ pc = "parsing" /\ remaining > 0 /\ checked = tablename
  /\ stmt' = Stmt(kind, tablename, <<>>, <<>>)
  /\ calls' = <<call>>
  /\ Return
  /\ UNCHANGED <<m_parser_response, m_sc, m_parser, call_stream, pre_response,
                 emitted, merge_vars>>

insert(tablename, values) ==
  /\ Forward("insert", tablename,
             EngineCall("add", tablename, NoAttribute, <<>>, Reverse(values)))
  /\ UNCHANGED engine_vars

\* filename is the quoted path, one character per element
insert_from_file(tablename, filename) ==
  /\ Forward("insert_from_file", tablename,
             EngineCall("csv_insert", tablename, NoAttribute, <<>>,
                        SubSeq(filename, 2, Len(filename) - 1)))
  /\ UNCHANGED engine_vars

remove(tablename, constraint) ==
  /\ constraint # <<>> /\ constraint[1] # <<>>
  /\ LET unique_condition == constraint[1][1] IN
     Forward("remove", tablename,
             EngineCall("remove", tablename,
                        [name |-> unique_condition.column_name,
                         value |-> unique_condition.value], <<>>, <<>>))
  /\ UNCHANGED engine_vars

drop_table(tablename) ==
  /\ Forward("drop_table", tablename,
             EngineCall("drop_table", tablename, NoAttribute, <<>>, <<>>))
  /\ tables' = tables \ {tablename}
  /\ attributes' = [attributes EXCEPT ![tablename] = <<>>]
  /\ indexes' = [indexes EXCEPT ![tablename] = {}]

\* R[i] is the engine's answer to the data call of disjunct i (R[1] with no WHERE clause)
select(tablename, column_names, constraints, R) ==
  /\ pc = "parsing" /\ remaining > 0 /\ checked = tablename
  /\ stmt' = Stmt("select", tablename, column_names, constraints)
  /\ LET sorted_column_names == sort_attributes(tablename, column_names)
         table_attributes == get_table_attributes(tablename)
     IN IF \E col \in Range(sorted_column_names) : col \notin Range(table_attributes)
        THEN /\ Throw("Column doesn't exists")
             /\ calls' = <<>>
             /\ UNCHANGED <<m_parser_response, emitted, remaining>>
        ELSE LET run == RunSelect(tablename, sorted_column_names, constraints, R) IN
             /\ calls' = run.log
             /\ m_parser_response' =
                  query_to_output(m_parser_response, run.query_response, sorted_column_names)
             /\ emitted' = TRUE
             /\ Return
  /\ UNCHANGED <<engine_vars, m_sc, m_parser, call_stream, pre_response, merge_vars>>

\* ret is the engine's answer to the range_search
select_between(tablename, column_names, id, val1, val2, ret) ==
  /\ pc = "parsing" /\ remaining > 0 /\ checked = tablename
  /\ stmt' = Stmt("select_between", tablename, column_names, <<>>)
  /\ LET \* the value sort_attributes returns is dropped: the copy keeps the request's order
         sorted_column_names == column_names
         table_attributes == get_table_attributes(tablename)
     IN IF \E col \in Range(sorted_column_names) : col \notin Range(table_attributes)
        THEN /\ Throw("Column doesn't exists")
             /\ calls' = <<>>
             /\ UNCHANGED <<m_parser_response, emitted, remaining>>
        ELSE /\ calls' = <<Call("range_search", tablename, 0, NoAttribute,
                                [name |-> id, value |-> val1],
                                [name |-> id, value |-> val2],
                                <<>>, sorted_column_names, NoCondition, ret)>>
             /\ m_parser_response' =
                  query_to_output(m_parser_response, ret, sorted_column_names)
             /\ emitted' = TRUE
             /\ Return
  /\ UNCHANGED <<engine_vars, m_sc, m_parser, call_stream, pre_response, merge_vars>>

(***************************************************************************)
(* The session: parse calls on streams of statements.                      *)
(***************************************************************************)
Init ==
  /\ tables = {}
  /\ attributes = [t \in TableNames |-> <<>>]
  /\ indexes = [t \in TableNames |-> {}]
  /\ m_parser_response = EmptyResponse
  /\ m_sc = "null"
  /\ m_parser = "null"
  /\ pc = "idle"
  /\ call_stream = GoodStream
  /\ remaining = 0
  /\ checked = "none"
  /\ outcome = "none"
  /\ pre_response = EmptyResponse
  /\ emitted = FALSE
  /\ stmt = NoStmt
  /\ calls = <<>>
  /\ vec1 = <<>>
  /\ vec2 = <<>>
  /\ merged = <<>>

\* the statements of a session's streams
SessionColumnLists == {<<"a">>, <<"a", "b">>, <<"b", "a">>, <<"z">>}
SessionConstraints == {<<>>} \cup {<<<<cd>>>> : cd \in EqConditions}
SessionAnswers == QueryResponses({"r1"}, 1, {NoTimes})
SessionValues == {<<"1", "2">>}
SessionFiles == {<<"'", "f", "'">>}

Next ==
  \/ \E stream \in Streams, n \in 0..MaxStmts : parse(stream, n)
  \/ \E opened \in BOOLEAN, n \in 0..MaxStmts : parse_file(opened, n)
  \/ ParsingFailed
  \/ ParsingAccepted
  \/ clear
  \/ \E t \in TableNames : check_table_name(t)
  \/ \E t \in CreatedTables, columns \in ColumnDefs : create_table(t, columns)
  \/ \E t \in TableNames, c \in ColNames, k \in IndexKinds : create_index(t, c, k)
  \/ \E t \in TableNames, values \in SessionValues : insert(t, values)
  \/ \E t \in TableNames, f \in SessionFiles : insert_from_file(t, f)
  \/ \E t \in TableNames, cons \in SessionConstraints : remove(t, cons)
  \/ \E t \in TableNames : drop_table(t)
  \/ \E t \in TableNames, cols \in SessionColumnLists, cons \in SessionConstraints,
        qr \in SessionAnswers : select(t, cols, cons, <<qr>>)
  \/ \E t \in TableNames, cols \in SessionColumnLists, id \in Cols,
        qr \in SessionAnswers : select_between(t, cols, id, "1", "2", qr)

Spec == Init /\ [][Next]_vars

(***************************************************************************)
(* One SELECT statement: the parser is reducing a SELECT on table t, which *)
(* check_table_name has accepted; the table's indexes are any subset of    *)
(* its columns.  The WHERE clauses and the engine's answers are drawn from *)
(* three families: many-condition clauses (the planner), clauses of        *)
(* single-condition disjuncts with every record list as answer (the        *)
(* record merge), and the same clauses with every timing map as answer     *)
(* (the timing merge).                                                     *)
(***************************************************************************)
InitSelect ==
  /\ tables = {"t"}
  /\ attributes = [t \in TableNames |-> IF t = "t" THEN <<"a", "b">> ELSE <<>>]
  /\ indexes \in {[t \in TableNames |-> IF t = "t" THEN idx ELSE {}] : idx \in SUBSET Cols}
  /\ m_parser_response = EmptyResponse
  /\ m_sc = "scanner"
  /\ m_parser = "parser"
  /\ pc = "parsing"
  /\ call_stream = GoodStream
  /\ remaining = 1
  /\ checked = "t"
  /\ outcome = "none"
  /\ pre_response = EmptyResponse
  /\ emitted = FALSE
  /\ stmt = Stmt("check_table_name", "t", <<>>, <<>>)
  /\ calls = <<>>
  /\ vec1 = <<>>
  /\ vec2 = <<>>
  /\ merged = <<>>

RECURSIVE GroupFrom(_, _, _, _, _)
\* the conditions of flat grouped into disjuncts, a new one after each position in cuts
GroupFrom(flat, cuts, i, cur, acc) ==
  IF i > Len(flat) THEN acc
  ELSE IF i \in cuts \/ i = Len(flat)
       THEN GroupFrom(flat, cuts, i + 1, <<>>, Append(acc, Append(cur, flat[i])))
       ELSE GroupFrom(flat, cuts, i + 1, Append(cur, flat[i]), acc)

\* every WHERE clause of at most n conditions in all; <<>> is the absent clause
WhereClauses(n) ==
  UNION {{GroupFrom(flat, cuts, 1, <<>>, <<>>) :
            flat \in [1..k -> Conditions], cuts \in SUBSET (1..(k - 1))} : k \in 0..n}

\* every WHERE clause of 1..n disjuncts of one equality condition each
EqWhereClauses(n) ==
  UNION {[1..k -> {<<cd>> : cd \in EqConditions}] : k \in 1..n}

PlanAnswer == [records |-> <<"r1">>, query_times |-> NoTimes]
RecordAnswers == QueryResponses(Records, MaxRecs, {[k \in {"search"} |-> 1]})
TimeAnswers == [records : {<<"r1">>}, query_times : TimeMaps]

Answers(constraints, S) ==
  [1..(IF constraints = <<>> THEN 1 ELSE Len(constraints)) -> S]

\* the SELECT being reduced is the only caller: nothing is drawn once it has run
NextSelect ==
  \/ /\ checked = "t"
     /\ \E cons \in WhereClauses(MaxConds) : \E R \in Answers(cons, {PlanAnswer}) :
           select("t", <<"b", "a">>, cons, R)
  \/ /\ checked = "t"
     /\ \E cons \in EqWhereClauses(MaxDisj) : \E R \in Answers(cons, RecordAnswers) :
           select("t", <<"a">>, cons, R)
  \/ /\ checked = "t"
     /\ \E cons \in EqWhereClauses(MaxDisj) : \E R \in Answers(cons, TimeAnswers) :
           select("t", <<"b">>, cons, R)

SpecSelect == InitSelect /\ [][NextSelect]_vars

(***************************************************************************)
(* merge_records called on two record vectors of any content.              *)
(***************************************************************************)
InitMerge ==
  /\ tables = {}
  /\ attributes = [t \in TableNames |-> <<>>]
  /\ indexes = [t \in TableNames |-> {}]
  /\ m_parser_response = EmptyResponse
  /\ m_sc = "null"
  /\ m_parser = "null"
  /\ pc = "idle"
  /\ call_stream = GoodStream
  /\ remaining = 0
  /\ checked = "none"
  /\ outcome = "none"
  /\ pre_response = EmptyResponse
  /\ emitted = FALSE
  /\ stmt = NoStmt
  /\ calls = <<>>
  /\ vec1 \in SeqsUpTo(MergeRecords, MaxVec)
  /\ vec2 \in SeqsUpTo(MergeRecords, MaxVec)
  /\ merged = <<>>

MergeRecordsCall ==
  /\ merged = <<>>
  /\ merged' = <<merge_records(vec1, vec2)>>
  /\ UNCHANGED <<engine_vars, m_parser_response, m_sc, m_parser, pc, call_stream,
                 remaining, checked, outcome, pre_response, emitted, stmt, calls,
                 vec1, vec2>>

NextMerge == MergeRecordsCall

SpecMerge == InitMerge /\ [][NextMerge]_vars

(***************************************************************************)
(* What the properties read off the state.                                 *)
(***************************************************************************)
\* the latest callback was a select (one of kinds) and it returned
Returned(kinds) == pc = "parsing" /\ checked = "none" /\ stmt.kind \in kinds

SelectDone == Returned({"select"})

\* the table's schema order filtered to the requested columns
SchemaFiltered ==
  SelectSeq(attributes[stmt.table], LAMBDA c : c \in Range(stmt.cols))

\* the column list sort_attributes returns for the statement's request
SortedCols == sort_attributes(stmt.table, stmt.cols)

IndexedCondition(cd) == cd.column_name \in indexes[stmt.table]

HasIndexed(d) == \E p \in 1..Len(d) : IndexedCondition(d[p])

AllIndexed == \A i \in 1..Len(stmt.cons) : HasIndexed(stmt.cons[i])

\* the first disjunct with no condition on an indexed column
FirstUnindexed ==
  CHOOSE i \in 1..Len(stmt.cons) :
    /\ ~HasIndexed(stmt.cons[i])
    /\ \A j \in 1..(i - 1) : HasIndexed(stmt.cons[j])

\* the position of the first condition of d on an indexed column
FirstIndexed(d) ==
  CHOOSE p \in 1..Len(d) :
    /\ IndexedCondition(d[p])
    /\ \A q \in 1..(p - 1) : ~IndexedCondition(d[q])

CallsOf(i, ops) == SelectSeq(calls, LAMBDA c : c.disj = i /\ c.op \in ops)

DataCalls == SelectSeq(calls, LAMBDA c : c.op \in DataOps)

Count(s, x) == Cardinality({i \in 1..Len(s) : s[i] = x})

NoRepeats(s) == \A i, j \in 1..Len(s) : s[i] = s[j] => i = j

FirstIndex(s, x) == CHOOSE i \in 1..Len(s) : s[i] = x /\ \A j \in 1..(i - 1) : s[j] # x

\* s lists its elements in the order of their first occurrence in ref
InOrderOf(s, ref) ==
  \A i, j \in 1..Len(s) : i < j => FirstIndex(ref, s[i]) < FirstIndex(ref, s[j])

SameBag(s, u) == \A x \in Range(s) \cup Range(u) : Count(s, x) = Count(u, x)

Without(s, p) == [i \in 1..(Len(s) - 1) |-> IF i < p THEN s[i] ELSE s[i + 1]]

RECURSIVE AnswerRecords(_, _)
\* the record lists of the first n data calls, one after the other
AnswerRecords(data, n) ==
  IF n = 0 THEN <<>> ELSE AnswerRecords(data, n - 1) \o data[n].ret.records

\* the disjuncts (by position in the data calls) whose answer times stage k
Reporting(data, k) == {i \in 1..Len(data) : k \in DOMAIN data[i].ret.query_times}

Min(S) == CHOOSE x \in S : \A y \in S : x <= y
Max(S) == CHOOSE x \in S : \A y \in S : x >= y

Attr(cd) == [name |-> cd.column_name, value |-> cd.value]

(***************************************************************************)
(* C1.                                                                     *)
(***************************************************************************)
\* C1: a select with a WHERE clause whose disjuncts all hold a condition on an
\* indexed column issues one data call per disjunct, in order, and responds with
\* the ordered union of the answers R1..Rn: every record of some Ri, none twice,
\* in the order of first occurrence in R1 followed by R2 ... followed by Rn.
C1_OrderedUnion ==
  (SelectDone /\ stmt.cons # <<>> /\ AllIndexed) =>
    LET all == AnswerRecords(DataCalls, Len(DataCalls))
        out == m_parser_response.records
    IN /\ Len(DataCalls) = Len(stmt.cons)
       /\ \A i \in 1..Len(DataCalls) : DataCalls[i].disj = i
       /\ NoRepeats(out)
       /\ Range(out) = Range(all)
       /\ InOrderOf(out, all)

\* C1 witness: two index-driven disjuncts whose answers share a record, the second
\* bringing a new one as well
C1_Witness ==
  /\ SelectDone /\ Len(stmt.cons) = 2 /\ AllIndexed
  /\ Len(DataCalls) = 2
  /\ Range(DataCalls[1].ret.records) \cap Range(DataCalls[2].ret.records) # {}
  /\ Range(DataCalls[2].ret.records) \ Range(DataCalls[1].ret.records) # {}
  /\ Len(m_parser_response.records) = 2

(***************************************************************************)
(* C2.                                                                     *)
(***************************************************************************)
\* C2: when some disjunct has no condition on an indexed column, select issues
\* exactly one load, for the first such disjunct, with the sorted columns and that
\* disjunct's conditions as residual; the response's records and query_times are
\* that load's answer, and no get_comparator, load, search or range_search is
\* issued for a later disjunct.
C2_ScanOnly ==
  (SelectDone /\ stmt.cons # <<>> /\ ~AllIndexed) =>
    LET loads == SelectSeq(calls, LAMBDA c : c.op = "load") IN
    /\ Len(loads) = 1
    /\ loads[1].disj = FirstUnindexed
    /\ loads[1].table = stmt.table
    /\ loads[1].cols = SortedCols
    /\ loads[1].pred = stmt.cons[FirstUnindexed]
    /\ m_parser_response.records = loads[1].ret.records
    /\ m_parser_response.query_times = loads[1].ret.query_times
    /\ \A k \in 1..Len(calls) : calls[k].disj <= FirstUnindexed

\* C2 witness: the second disjunct is the unindexed one, and the first disjunct's
\* answer held a record the response lacks
C2_Witness ==
  /\ SelectDone /\ Len(stmt.cons) = 2 /\ ~AllIndexed
  /\ FirstUnindexed = 2
  /\ Len(DataCalls) = 2
  /\ Range(DataCalls[1].ret.records) \ Range(m_parser_response.records) # {}

(***************************************************************************)
(* C3.                                                                     *)
(***************************************************************************)
\* the Attribute an index-driven call was given as its key
DriverOf(c) ==
  IF c.op = "search" THEN c.key ELSE IF c.lo = KEY_MIN THEN c.hi ELSE c.lo

\* C3: for every disjunct select processes, the driver is the first condition on
\* an indexed column and the residual passed to the engine holds the comparator
\* of every other condition of the disjunct, later indexed ones included.
C3_DriverAndResidual ==
  SelectDone =>
    \A k \in 1..Len(calls) :
      (calls[k].op \in DataOps /\ calls[k].disj >= 1) =>
        LET d == stmt.cons[calls[k].disj] IN
        IF HasIndexed(d)
        THEN /\ calls[k].op \in {"search", "range_search"}
             /\ DriverOf(calls[k]) = Attr(d[FirstIndexed(d)])
             /\ SameBag(calls[k].pred, Without(d, FirstIndexed(d)))
        ELSE /\ calls[k].op = "load"
             /\ SameBag(calls[k].pred, d)

(***************************************************************************)
(* C4.                                                                     *)
(***************************************************************************)
\* C4: after a select or a select_between that returned, the columns passed to
\* the engine's data call and the response's column_names are the table's schema
\* order filtered to the requested columns.
C4_SchemaOrder ==
  Returned({"select", "select_between"}) =>
    /\ m_parser_response.column_names = SchemaFiltered
    /\ \A k \in 1..Len(DataCalls) : DataCalls[k].cols = SchemaFiltered

(***************************************************************************)
(* C5.                                                                     *)
(***************************************************************************)
\* the only text of the program that contains "Table"
ContainsTable(error) == error \in {"Table doesn't exists"}

\* C5: when a statement names a table the engine does not know, the session's
\* ParserResponse reports failure (code not 200, error containing "Table") and no
\* engine-mutating operation was performed for the statement.
C5_TableNotFoundReported ==
  (pc = "idle" /\ outcome = "Table doesn't exists") =>
    /\ failed(m_parser_response)
    /\ ContainsTable(m_parser_response.error)
    /\ \A k \in 1..Len(calls) : calls[k].op \notin MutatingOps

(***************************************************************************)
(* C6.                                                                     *)
(***************************************************************************)
\* C6 as stated: whenever a parse call ends with the parser's rejection, the
\* response equals the one the call found, whatever statements ran before.
C6_ResponseKept ==
  (pc = "idle" /\ outcome = "Parsing failed") => m_parser_response = pre_response

\* C6 amended: when a parse call ends with the parser's rejection and no select
\* or select_between returned during the call, the response equals the one the
\* call found.
C6_ResponseKeptWithoutSelect ==
  (pc = "idle" /\ outcome = "Parsing failed" /\ ~emitted) =>
    m_parser_response = pre_response

\* C6 witness: a rejected call that ran a statement other than a select, on a
\* session whose response held an earlier select's output
C6_Witness ==
  /\ pc = "idle" /\ outcome = "Parsing failed" /\ ~emitted
  /\ stmt.kind \in {"insert", "remove", "create_index", "drop_table"}
  /\ pre_response.column_names # <<>>

(***************************************************************************)
(* C7.                                                                     *)
(***************************************************************************)
\* C7 as stated: in a select whose disjuncts are all index-driven, the response
\* times every stage some answer times, with the duration of the last answer
\* that times it.  With two disjuncts the running map after the first is T1 and
\* the response's map is merge_times(T1, T2).
C7_LastWriterWins ==
  (SelectDone /\ stmt.cons # <<>> /\ AllIndexed) =>
    LET out == m_parser_response.query_times IN
    /\ DOMAIN out = UNION {DOMAIN DataCalls[i].ret.query_times : i \in 1..Len(DataCalls)}
    /\ \A k \in DOMAIN out :
         out[k] = DataCalls[Max(Reporting(DataCalls, k))].ret.query_times[k]

\* C7 amended: the response times every stage some answer times, with the
\* duration of the first answer that times it: merge_times(T1, T2) holds every
\* key of T1 and of T2 and, for a key of both, T1's value.
C7_FirstWriterWins ==
  (SelectDone /\ stmt.cons # <<>> /\ AllIndexed) =>
    LET out == m_parser_response.query_times IN
    /\ DOMAIN out = UNION {DOMAIN DataCalls[i].ret.query_times : i \in 1..Len(DataCalls)}
    /\ \A k \in DOMAIN out :
         out[k] = DataCalls[Min(Reporting(DataCalls, k))].ret.query_times[k]

\* C7 witness: two answers time the same stage differently, and the second times
\* a stage the first does not
C7_Witness ==
  /\ SelectDone /\ Len(stmt.cons) = 2 /\ AllIndexed /\ Len(DataCalls) = 2
  /\ LET T1 == DataCalls[1].ret.query_times
         T2 == DataCalls[2].ret.query_times
     IN /\ \E k \in DOMAIN T1 \cap DOMAIN T2 : T1[k] # T2[k]
        /\ DOMAIN T2 \ DOMAIN T1 # {}

(***************************************************************************)
(* C8.                                                                     *)
(***************************************************************************)
\* C8: a parse call on a stream with failbit, badbit or eofbit set returns the
\* response unchanged; no scanner or parser is made and no callback runs.
C8_NotGoodNotParsed ==
  (~good(call_stream) /\ outcome # "cleared") =>
    /\ pc = "idle"
    /\ outcome = "returned"
    /\ m_parser_response = pre_response
    /\ stmt = NoStmt
    /\ calls = <<>>

(***************************************************************************)
(* C9.                                                                     *)
(***************************************************************************)
\* C9 as stated: merge_records(A, B) is A followed by the elements of B that are
\* not in A, in B's order, and a record of both A and B occurs exactly once in it.
C9_MergeAsStated ==
  merged # <<>> =>
    LET out == merged[1]
        rest == SubSeq(out, Len(vec1) + 1, Len(out))
    IN /\ Len(out) >= Len(vec1)
       /\ SubSeq(out, 1, Len(vec1)) = vec1
       /\ Range(rest) = Range(vec2) \ Range(vec1)
       /\ InOrderOf(rest, vec2)
       /\ \A r \in Range(vec1) \cap Range(vec2) : Count(out, r) = 1

\* C9 amended: merge_records(A, B) is A, repeats included, followed by one copy
\* of each record of B that is not in A, in the order of first occurrence in B;
\* a record of both A and B occurs in it as often as in A.
C9_Merge ==
  merged # <<>> =>
    LET out == merged[1]
        rest == SubSeq(out, Len(vec1) + 1, Len(out))
    IN /\ Len(out) >= Len(vec1)
       /\ SubSeq(out, 1, Len(vec1)) = vec1
       /\ Range(rest) = Range(vec2) \ Range(vec1)
       /\ NoRepeats(rest)
       /\ InOrderOf(rest, vec2)
       /\ \A r \in Range(vec1) \cap Range(vec2) : Count(out, r) = Count(vec1, r)

\* C9 witness: A repeats a record that B holds, and B repeats a record A lacks
C9_Witness ==
  /\ merged # <<>>
  /\ \E r \in Range(vec1) \cap Range(vec2) : Count(vec1, r) > 1
  /\ \E r \in Range(vec2) \ Range(vec1) : Count(vec2, r) > 1

(***************************************************************************)
(* C10.                                                                    *)
(***************************************************************************)
\* C10: for every disjunct the loop reaches that has a condition on an indexed
\* column, with driver {col, op, val} the first such condition, exactly one data
\* call is issued: search(t, {col,val}, residual, sorted_cols) for '=',
\* range_search(t, KEY_MIN, {col,val}, residual, sorted_cols) for '<' and '<=',
\* range_search(t, {col,val}, KEY_MAX, residual, sorted_cols) for '>' and '>=',
\* the residual being the comparators get_comparator gave for the disjunct; no
\* load is issued for it.
C10_DriverCall ==
  SelectDone =>
    \A i \in 1..Len(stmt.cons) :
      ((\A j \in 1..(i - 1) : HasIndexed(stmt.cons[j])) /\ HasIndexed(stmt.cons[i])) =>
        LET driver == stmt.cons[i][FirstIndexed(stmt.cons[i])]
            data == CallsOf(i, DataOps)
            comparators == CallsOf(i, {"get_comparator"})
        IN /\ Len(data) = 1
           /\ data[1].table = stmt.table
           /\ data[1].cols = SortedCols
           /\ data[1].pred = [j \in 1..Len(comparators) |-> comparators[j].cond]
           /\ driver.c = "=" =>
                /\ data[1].op = "search"
                /\ data[1].key = Attr(driver)
           /\ driver.c \in {"<", "<="} =>
                /\ data[1].op = "range_search"
                /\ data[1].lo = KEY_MIN
                /\ data[1].hi = Attr(driver)
           /\ driver.c \in {">", ">="} =>
                /\ data[1].op = "range_search"
                /\ data[1].lo = Attr(driver)
                /\ data[1].hi = KEY_MAX

\* C10 witness: a select of two index-driven disjuncts, the first bounded above
\* and the second bounded below
C10_Witness ==
  /\ SelectDone /\ Len(stmt.cons) = 2 /\ Len(DataCalls) = 2
  /\ DataCalls[1].op = "range_search" /\ DataCalls[1].lo = KEY_MIN
  /\ DataCalls[2].op = "range_search" /\ DataCalls[2].hi = KEY_MAX

====
